---------------------------- MODULE Spec2Model ----------------------------
(***************************************************************************)
(* A model of roxtract's binary-parsing engine: the bounded byte view      *)
(* (bintrinsics.rs), the byte-pattern search and the offset-correlation    *)
(* heuristic (heuristics.rs), and the ROM model with its memoised offsets  *)
(* and module-chain iterator (lib.rs).                                     *)
(*                                                                         *)
(* Bytes are naturals 0..255, byte strings are sequences of bytes, and an  *)
(* offset into a byte string is 0-based as in the source (so the byte at   *)
(* offset i of s is s[i+1]).  Every u32 operation the source uses (checked,  *)
(* saturating, wrapping) is modelled at its 32-bit width.  Option<T> is a  *)
(* sequence: None is <<>> and Some(v) is <<v>>.                            *)
(***************************************************************************)
EXTENDS Integers, Sequences, FiniteSets, TLC

VARIABLES
    hay,        \* heuristics: the haystack handed to find / find_offset_to
    needle,     \* heuristics: the needle
    adj,        \* find_offset_to: its `offset` parameter
    pc,         \* heuristics: "idle", "find_done", "scan" (inside the loop), "done"
    target,     \* find_offset_to: local `target`
    cursor,     \* find_offset_to: WordCursor.cursor_rel
    result,     \* the value returned by the call that has finished
    rom,        \* the bytes of the ROM image (the memory every view points into)
    view,       \* bounded view: the Slice32 (ptr, len) under test
    call,       \* the last operation called on the view, iterator or Rom
    ret,        \* what that operation returned
    pos,        \* ModuleChain.pos
    ended,      \* history: next() has returned None on the current iterator
    calls,      \* history: next() calls made up to the first that returned None
    yielded,    \* history: modules the current iterator has yielded (both
                \* counted up to one more than the image length)
    kernel_start,        \* Rom.kernel_start, a Cell<Option<NonZeroU32>>
    module_chain_start,  \* Rom.module_chain_start
    hist,       \* history, per cached offset: calls made, searches run, first result
    trail,      \* history: the byte ranges [from, to) of the modules yielded so far
    file        \* Rom::from_file: the file, the position in from_file_impl, reads made

heurVars == <<hay, needle, adj, pc, target, cursor, result>>
chainVars == <<pos, ended, calls, yielded, trail>>
cacheVars == <<kernel_start, module_chain_start, hist>>
imageVars == <<rom, view, call, ret, pos, ended, calls, yielded, trail,
               kernel_start, module_chain_start, hist>>
loadVars == <<file>>

vars == <<hay, needle, adj, pc, target, cursor, result, rom, view, call, ret,
          pos, ended, calls, yielded, kernel_start, module_chain_start, hist,
          trail, file>>

(***************************************************************************)
(* Bounds of the model.                                                    *)
(***************************************************************************)
MaxFindHay == 6      \* longest free-form haystack
MaxFindNeedle == 3   \* longest free-form needle
MaxWords == 3        \* words in front of the tail of a structured haystack
MaxTail == 2         \* bytes of tail of a structured haystack
MaxWrapWalk == 2     \* iterations of the backward walk followed after a wrap
MaxTitleTail == 3    \* bytes of a module view after its title-offset word
MaxSmallWords == 4   \* words of the longest small ROM image of the chain model
BigWords == 66       \* words of the large ROM image (room for a 256-byte module)
MaxPatchSpan == 6    \* bytes, from offset 4 on, where length bytes are planted
MaxStartWord == 2    \* last word position an iterator is seeded at
RomWords == 14       \* words of the small ROM image of the Rom model
MaxLinked == 3       \* modules of a well-formed chain image
MaxField == 13       \* largest displacement word of a round-trip buffer
MaxPad == 4          \* bytes of padding of the longest round-trip buffer
MaxAdjust == 5       \* largest adjustment of a round trip
MaxSmallLen == 17    \* longest small file or buffer handed to the loaders
MaxLimitSlack == 5   \* lengths this far below and above ROM_LIMIT are loaded

(***************************************************************************)
(* u32 and Option.  A u32 is the pair <<hi, lo>> of its 16-bit halves, so  *)
(* that every value up to u32::MAX is representable; a usize (a length or  *)
(* an index of a buffer, below 2^31 here) is a natural number.             *)
(***************************************************************************)
Half == 2^16

u32(n) == << n \div Half, n % Half >>          \* `n as u32`, n a usize
usize(x) == x[1] * Half + x[2]                 \* `x as usize`, x below 2^31
U32_MAX == << Half - 1, Half - 1 >>

None == <<>>
Some(v) == <<v>>

u32_lt(a, b) == a[1] < b[1] \/ (a[1] = b[1] /\ a[2] < b[2])
u32_le(a, b) == a = b \/ u32_lt(a, b)
\* `x as usize <= n` and `x as usize < n` for a usize n
le_usize(x, n) == x[1] < Half \div 2 /\ usize(x) <= n
lt_usize(x, n) == x[1] < Half \div 2 /\ usize(x) < n

checked_add(a, b) ==
    LET lo == a[2] + b[2]
        hi == a[1] + b[1] + (lo \div Half)
    IN  IF hi >= Half THEN None ELSE Some(<< hi, lo % Half >>)
wrapping_sub(a, b) ==
    LET borrow == IF a[2] < b[2] THEN 1 ELSE 0
    IN  << (a[1] - b[1] - borrow + Half) % Half, (a[2] - b[2] + Half) % Half >>
checked_sub(a, b) == IF u32_lt(a, b) THEN None ELSE Some(wrapping_sub(a, b))
saturating_add(a, b) ==
    LET s == checked_add(a, b) IN IF s = None THEN U32_MAX ELSE s[1]
saturating_sub(a, b) == IF u32_lt(a, b) THEN u32(0) ELSE wrapping_sub(a, b)

\* u32::from_le_bytes / read_unaligned of the four bytes of s at offset p
\* (little-endian, as the repository's tests fix it).
from_le_bytes(s, p) == << s[p + 3] + 256 * s[p + 4], s[p + 1] + 256 * s[p + 2] >>

\* u32::to_le_bytes, used to build inputs.
to_le_bytes(w) == << w[2] % 256, w[2] \div 256, w[1] % 256, w[1] \div 256 >>

SeqsUpTo(S, n) == UNION { [1..k -> S] : k \in 0..n }

RECURSIVE Concat(_)
Concat(ss) == IF ss = <<>> THEN <<>> ELSE Head(ss) \o Concat(Tail(ss))

(***************************************************************************)
(* heuristics.rs: Rom::find.                                               *)
(***************************************************************************)
\* haystack.iter().copied().position(|n| n == b)
position(s, b) ==
    IF \E i \in 1..Len(s) : s[i] = b
    THEN Some((CHOOSE i \in 1..Len(s) :
                   s[i] = b /\ \A j \in 1..(i - 1) : s[j] # b) - 1)
    ELSE None

\* A search that resumes after the whole compared range instead of just past
\* the located first byte.
RECURSIVE find_loop_skip(_, _, _)
find_loop_skip(haystack, ndl, hs_sub_start) ==
    LET found == position(haystack, ndl[1]) IN
    IF found = None THEN None
    ELSE LET start == found[1]
             range_start == start + 1
             range_end == start + Len(ndl)
         IN  IF range_end > Len(haystack) THEN None
             ELSE IF SubSeq(haystack, range_start + 1, range_end) = Tail(ndl)
                  THEN Some(u32(range_start - 1 + hs_sub_start))
                  ELSE find_loop_skip(SubSeq(haystack, range_end + 1, Len(haystack)),
                                      ndl, hs_sub_start + range_end)

\* The loop of Rom::find: one unfolding per iteration, `haystack` the
\* remaining subslice and hs_sub_start its offset in the original haystack.
RECURSIVE find_loop(_, _, _)
find_loop(haystack, ndl, hs_sub_start) ==
    LET found == position(haystack, ndl[1]) IN
    IF found = None THEN None
    ELSE LET start == found[1]
             range_start == start + 1
             range_end == start + Len(ndl)
         IN  IF range_end > Len(haystack) THEN None
             ELSE IF SubSeq(haystack, range_start + 1, range_end) = Tail(ndl)
                  THEN Some(u32(range_start - 1 + hs_sub_start))
                  ELSE find_loop(SubSeq(haystack, range_start + 1, Len(haystack)),
                                 ndl, hs_sub_start + range_start)

find(haystack, ndl) ==
    IF haystack = <<>> THEN None
    ELSE IF ndl = <<>> THEN None
    ELSE find_loop(haystack, ndl, 0)

(***************************************************************************)
(* heuristics.rs: WordCursor and Rom::find_offset_to.                      *)
(***************************************************************************)
\* WordCursor::new: the bytes the cursor keeps (length rounded down to words).
bytes_words_only(bytes) == SubSeq(bytes, 1, Len(bytes) - (Len(bytes) % 4))

\* An end cursor that starts one word too far back.
new_end_skip_last(bytes) == saturating_sub(u32(Len(bytes_words_only(bytes))), u32(8))

\* WordCursor::new_end: the initial cursor_rel.
new_end(bytes) == saturating_sub(u32(Len(bytes_words_only(bytes))), u32(4))

\* WordCursor::current on the cursor's bytes.
current(bytes, cursor_rel) ==
    LET n == checked_add(cursor_rel, u32(4)) IN
    IF n # None /\ le_usize(n[1], Len(bytes))
    THEN Some(from_le_bytes(bytes, usize(cursor_rel)))
    ELSE None

\* WordCursor::move_prev
move_prev(cursor_rel) == wrapping_sub(cursor_rel, u32(4))

\* The bytes the cursor of find_offset_to walks: haystack[..target], words only.
cursor_bytes(haystack, tgt) == bytes_words_only(SubSeq(haystack, 1, usize(tgt)))

\* An iteration that returns the position of the matching word itself.
loop_body_returns_cursor(haystack, tgt, offset, cur) ==
    LET possible_start == checked_sub(cur, offset) IN
    IF possible_start = None
    THEN [returns |-> TRUE, ret |-> None, next |-> cur]
    ELSE LET cc == current(cursor_bytes(haystack, tgt), cur)
             sum == IF cc = None THEN None ELSE checked_add(possible_start[1], cc[1])
         IN  IF sum = Some(tgt)
             THEN [returns |-> TRUE, ret |-> Some(cur), next |-> cur]
             ELSE [returns |-> FALSE, ret |-> None, next |-> move_prev(cur)]

\* One iteration of the loop of find_offset_to, at cursor position cur:
\* either the call returns (ret) or the cursor moves (next).
loop_body(haystack, tgt, offset, cur) ==
    LET possible_start == checked_sub(cur, offset) IN
    IF possible_start = None
    THEN [returns |-> TRUE, ret |-> None, next |-> cur]
    ELSE LET cc == current(cursor_bytes(haystack, tgt), cur)
             sum == IF cc = None THEN None ELSE checked_add(possible_start[1], cc[1])
         IN  IF sum = Some(tgt)
             THEN [returns |-> TRUE, ret |-> possible_start, next |-> cur]
             ELSE [returns |-> FALSE, ret |-> None, next |-> move_prev(cur)]

\* The loop of find_offset_to from cursor position cur on (it does not return
\* when offset is 0 and no word matches: see FindOffsetToLoop).
RECURSIVE find_offset_to_loop(_, _, _, _)
find_offset_to_loop(haystack, tgt, offset, cur) ==
    LET b == loop_body(haystack, tgt, offset, cur) IN
    IF b.returns THEN b.ret ELSE find_offset_to_loop(haystack, tgt, offset, b.next)

\* Rom::find_offset_to as a function of its arguments.
find_offset_to(haystack, ndl, offset) ==
    IF Len(haystack) < 4 THEN None
    ELSE LET t == find(haystack, ndl) IN
         IF t = None THEN None
         ELSE find_offset_to_loop(haystack, t[1], offset,
                                  new_end(SubSeq(haystack, 1, usize(t[1]))))

(***************************************************************************)
(* Inputs of the heuristics.                                               *)
(***************************************************************************)
FindAlphabet == {97, 98}
FindHays == SeqsUpTo(FindAlphabet, MaxFindHay)
FindNeedles == SeqsUpTo(FindAlphabet, MaxFindNeedle)

\* Structured haystacks: some words, then a short tail of text.
WordVals == {u32(0), u32(4), u32(5), u32(8), U32_MAX}
WordPrefixes == { Concat([i \in 1..Len(ws) |-> to_le_bytes(ws[i])]) : ws \in SeqsUpTo(WordVals, MaxWords) }
Tails == SeqsUpTo({65, 66}, MaxTail)
OffsetHays == { p \o t : p \in WordPrefixes, t \in Tails }
OffsetNeedles == { <<65>>, <<65, 66>>, <<66, 65>>, <<0>> }
Adjustments == {u32(0), u32(1), u32(4)}

\* The variables of a component that a specification does not exercise.
HeurIdle ==
    /\ hay = <<>>
    /\ needle = <<>>
    /\ adj = u32(0)
    /\ pc = "idle"
    /\ target = u32(0)
    /\ cursor = u32(0)
    /\ result = None

NoView == [ptr |-> 0, len |-> 0]

\* pos when no iterator has been constructed.
NoIterator == <<>>

ChainIdle ==
    /\ pos = NoIterator
    /\ ended = FALSE
    /\ calls = 0
    /\ yielded = 0
    /\ trail = <<>>

\* CachedOffset::default() for both cells, and nothing called yet.
NoHistory == [calls |-> 0, searches |-> 0, first |-> <<"none yet">>]
CacheIdle ==
    /\ kernel_start = None
    /\ module_chain_start = None
    /\ hist = [kernel_start |-> NoHistory, module_chain_start |-> NoHistory]

\* No file is being loaded.
NoFile == <<>>
LoadIdle == file = NoFile

ImageIdle ==
    /\ rom = <<>>
    /\ view = NoView
    /\ call = <<>>
    /\ ret = None
    /\ ChainIdle
    /\ CacheIdle

InitHeur ==
    /\ \/ hay \in FindHays /\ needle \in FindNeedles
       \/ hay \in OffsetHays /\ needle \in OffsetNeedles
    /\ adj = u32(0)
    /\ pc = "idle"
    /\ target = u32(0)
    /\ cursor = u32(0)
    /\ result = None
    /\ ImageIdle
    /\ LoadIdle

\* Rom::find(hay, needle), a whole call.
CallFind ==
    /\ pc = "idle"
    /\ result' = find(hay, needle)
    /\ pc' = "find_done"
    /\ UNCHANGED <<hay, needle, adj, target, cursor>>
    /\ UNCHANGED <<imageVars, loadVars>>

\* Rom::find_offset_to(hay, needle, a), up to the entry of its loop.
FindOffsetToEnter(a) ==
    /\ pc = "idle"
    /\ adj' = a
    /\ IF Len(hay) < 4
       THEN /\ result' = None
            /\ pc' = "done"
            /\ UNCHANGED <<target, cursor>>
       ELSE LET t == find(hay, needle) IN
            IF t = None
            THEN /\ result' = None
                 /\ pc' = "done"
                 /\ UNCHANGED <<target, cursor>>
            ELSE /\ target' = t[1]
                 /\ cursor' = new_end(SubSeq(hay, 1, usize(t[1])))
                 /\ pc' = "scan"
                 /\ UNCHANGED result
    /\ UNCHANGED <<hay, needle>>
    /\ UNCHANGED <<imageVars, loadVars>>

\* Whether the walk is still followed: always inside the buffer, and for
\* MaxWrapWalk iterations after the cursor has wrapped below zero.
Followed ==
    \/ u32_le(cursor, target)
    \/ cursor[1] = Half - 1 /\ cursor[2] > Half - 4 * MaxWrapWalk

\* One iteration of the loop of find_offset_to.
FindOffsetToLoop ==
    /\ pc = "scan"
    /\ Followed
    /\ LET b == loop_body(hay, target, adj, cursor) IN
       IF b.returns
       THEN /\ result' = b.ret
            /\ pc' = "done"
            /\ UNCHANGED cursor
       ELSE /\ cursor' = b.next
            /\ UNCHANGED <<result, pc>>
    /\ UNCHANGED <<hay, needle, adj, target>>
    /\ UNCHANGED <<imageVars, loadVars>>

NextHeur ==
    \/ CallFind
    \/ \E a \in Adjustments : FindOffsetToEnter(a)
    \/ FindOffsetToLoop

SpecHeur == InitHeur /\ [][NextHeur]_vars

(***************************************************************************)
(* Reference notions for the heuristics.                                   *)
(***************************************************************************)
\* ndl occurs in h at offset k
Occurs(h, ndl, k) == k + Len(ndl) <= Len(h) /\ SubSeq(h, k + 1, k + Len(ndl)) = ndl

HasOccurrence(h, ndl) == ndl # <<>> /\ \E k \in 0..Len(h) : Occurs(h, ndl, k)

FirstOccurrence(h, ndl) ==
    CHOOSE k \in 0..Len(h) : Occurs(h, ndl, k) /\ \A j \in 0..(k - 1) : ~Occurs(h, ndl, j)

\* The word of h at offset q is a displacement field for target t under
\* adjustment a: q is a word position wholly before t and (q - a) + word = t.
MatchesAt(h, a, t, q) ==
    /\ q % 4 = 0
    /\ q + 4 <= t
    /\ q >= a
    /\ LET v == from_le_bytes(h, q) IN v[1] < Half \div 2 /\ (q - a) + usize(v) = t

\* C1: find(h, n) is Some(k) for the smallest offset k at which the non-empty
\* needle n occurs in h, and None in every other case (n empty, h empty, no
\* occurrence).
C1_FindIsFirstOccurrence ==
    pc = "find_done" =>
        IF HasOccurrence(hay, needle)
        THEN result = Some(u32(FirstOccurrence(hay, needle)))
        ELSE result = None

\* C1 witness: a search that returned an offset after rejecting an earlier
\* position where the needle's first byte matched.
C1_Witness ==
    /\ pc = "find_done"
    /\ result # None
    /\ Len(needle) >= 2
    /\ \E j \in 0..(usize(result[1]) - 1) : hay[j + 1] = needle[1]

\* C2: when find_offset_to(h, n, a) returns Some(r) on a haystack of at least 4
\* bytes, then with target the first occurrence of n and p = r + a: p is a word
\* position wholly before target with r + word(p) = target, and no later word
\* position before target satisfies the same equation.
C2_OffsetIsClosestPrecedingMatch ==
    (pc = "done" /\ result # None) =>
        /\ Len(hay) >= 4
        /\ HasOccurrence(hay, needle)
        /\ result[1][1] < Half \div 2
        /\ LET t == FirstOccurrence(hay, needle)
               p == usize(result[1]) + usize(adj)
           IN  /\ MatchesAt(hay, usize(adj), t, p)
               /\ \A q \in (p + 1)..t : ~MatchesAt(hay, usize(adj), t, q)

\* C2 witness: a successful call where a word further back also satisfied the
\* equation and was not returned.
C2_Witness ==
    /\ pc = "done"
    /\ result # None
    /\ \E q \in 0..(usize(result[1]) + usize(adj) - 1) :
           MatchesAt(hay, usize(adj), usize(target), q)

\* C3: the backward walk of find_offset_to ends once the cursor passes the
\* start of the buffer: while the loop is still running, the cursor is a
\* position of the searched prefix haystack[..target].
C3_WalkEndsPastStart == pc = "scan" => u32_le(cursor, target)

(***************************************************************************)
(* Round trips of find_offset_to, laid out as the fixtures of its tests    *)
(* are: four zero bytes, one little-endian displacement word, padding, and *)
(* the needle at the end of the buffer.                                    *)
(***************************************************************************)
RoundTripNeedles == { <<65>>, <<65, 66>> }
RoundTripPads == SeqsUpTo({0, 4}, MaxPad)
RoundTripHays(ndl) ==
    { <<0, 0, 0, 0>> \o to_le_bytes(u32(f)) \o pad \o ndl :
        f \in 0..MaxField, pad \in RoundTripPads }
RoundTripAdjustments == { u32(a) : a \in 0..MaxAdjust }

InitRoundTrip ==
    /\ \E ndl \in RoundTripNeedles : needle = ndl /\ hay \in RoundTripHays(ndl)
    /\ adj = u32(0)
    /\ pc = "idle"
    /\ target = u32(0)
    /\ cursor = u32(0)
    /\ result = None
    /\ ImageIdle
    /\ LoadIdle

NextRoundTrip ==
    \/ \E a \in RoundTripAdjustments : FindOffsetToEnter(a)
    \/ FindOffsetToLoop

SpecRoundTrip == InitRoundTrip /\ [][NextRoundTrip]_vars

\* The buffer is four zero bytes, a displacement word of value f, padding,
\* and the needle at offset t, which is its first occurrence.
RoundTripBuffer(f, t) ==
    /\ Len(hay) = t + Len(needle)
    /\ t >= 8
    /\ SubSeq(hay, 1, 4) = <<0, 0, 0, 0>>
    /\ from_le_bytes(hay, 4) = u32(f)
    /\ HasOccurrence(hay, needle)
    /\ FirstOccurrence(hay, needle) = t

NeedleAt == Len(hay) - Len(needle)

\* No word of the padding satisfies the equation of the walk.
PaddingNeverMatches ==
    \A q \in 8..NeedleAt : ~MatchesAt(hay, usize(adj), NeedleAt, q)

\* C12 as stated: on four zero bytes, the encoding of (target - adjustment),
\* padding and the needle at offset target, find_offset_to returns the
\* position of the displacement field, which is 4.
C12_RoundTripFieldPosition ==
    (pc = "done" /\ RoundTripBuffer(NeedleAt - usize(adj), NeedleAt)) =>
        result = Some(u32(4))

\* C12 amended: the word at position p is found when (p - adjustment) + word
\* = target, and what is returned is p - adjustment.  So on four zero bytes,
\* the encoding of target - (4 - adjustment), padding no word of which
\* satisfies that equation, and the needle at offset target, the call returns
\* 4 - adjustment when adjustment <= 4, without the walk ever passing the
\* field; for a larger adjustment it returns None.
C12_RoundTripRecordStart ==
    (/\ pc \in {"scan", "done"}
     /\ RoundTripBuffer(NeedleAt - 4 + usize(adj), NeedleAt)
     /\ PaddingNeverMatches) =>
        /\ pc = "scan" => u32_le(u32(4), cursor) /\ u32_le(cursor, target)
        /\ pc = "done" =>
              result = IF usize(adj) <= 4 THEN Some(u32(4 - usize(adj))) ELSE None

\* C12 witness: a round trip with a non-zero adjustment and a word of
\* non-zero padding between the field and the needle, which returned the
\* field's position less the adjustment.
C12_Witness ==
    /\ pc = "done"
    /\ usize(adj) \in 1..4
    /\ RoundTripBuffer(NeedleAt - 4 + usize(adj), NeedleAt)
    /\ PaddingNeverMatches
    /\ NeedleAt >= 12
    /\ \E i \in 9..12 : hay[i] # 0
    /\ result = Some(u32(4 - usize(adj)))

(***************************************************************************)
(* bintrinsics.rs: Slice32.  A Slice32 is the pair (ptr, len) of a slice   *)
(* reference: the view of the len bytes of memory mem from offset ptr.     *)
(***************************************************************************)
\* Slice32::len
slice_len(s) == u32(s.len)

\* Slice32::read_byte
read_byte(mem, s, idx) ==
    IF lt_usize(idx, s.len) THEN Some(mem[s.ptr + usize(idx) + 1]) ELSE None

\* A bounds check that also rejects the last word of the view.
read_word_strict(mem, s, idx) ==
    IF u32_le(slice_len(s), saturating_add(idx, u32(4)))
    THEN None
    ELSE Some(from_le_bytes(mem, s.ptr + usize(idx)))

\* Slice32::read_word
read_word(mem, s, idx) ==
    IF u32_lt(slice_len(s), saturating_add(idx, u32(4)))
    THEN None
    ELSE Some(from_le_bytes(mem, s.ptr + usize(idx)))

\* Slice32::subslice_unchecked (only called with start <= end <= len)
subslice_unchecked(s, start, end) ==
    [ptr |-> s.ptr + usize(start), len |-> usize(end) - usize(start)]

\* Slice32::subslice
subslice(s, start, end) ==
    IF u32_lt(end, start) THEN None
    ELSE IF ~le_usize(start, s.len) \/ ~le_usize(end, s.len) THEN None
    ELSE Some(subslice_unchecked(s, start, end))

\* Slice32::subslice_from
subslice_from(s, new_start) == subslice(s, new_start, slice_len(s))

\* The scan of Slice32::cstr, from n on.
RECURSIVE cstr_loop(_, _, _)
cstr_loop(mem, s, n) ==
    LET b == read_byte(mem, s, n) IN
    IF b = None THEN None
    ELSE IF b[1] # 0 THEN cstr_loop(mem, s, checked_add(n, u32(1))[1])
    ELSE Some(subslice_unchecked(s, u32(0), n))

\* A scan for the terminator that runs on into the memory behind the view.
cstr_past_view(mem, s) ==
    LET c == cstr_loop(mem, [ptr |-> s.ptr, len |-> Len(mem) - s.ptr], u32(0)) IN
    IF s.len = 0 THEN None ELSE c

\* Slice32::cstr
cstr(mem, s) == cstr_loop(mem, s, u32(0))

Ok(v) == <<"Ok", v>>
Err(e) == <<"Err", e>>

\* lib.rs: Module::title on the module view `bytes`
title(mem, bytes) ==
    LET o == read_word(mem, bytes, u32(16))
        shifted == IF o = None THEN None ELSE subslice_from(bytes, o[1])
        str == IF shifted = None THEN None ELSE cstr(mem, shifted[1])
    IN  IF str = None THEN Err("UnterminatedCstr") ELSE Ok(str[1])

(***************************************************************************)
(* Views under test: a module view (16 header bytes, the title-offset      *)
(* word, a short tail), possibly cut short, between other bytes of memory. *)
(***************************************************************************)
Headers ==
    { [i \in 1..16 |-> 65], [i \in 1..16 |-> 0], [i \in 1..16 |-> IF i = 10 THEN 0 ELSE 65] }
TitleOffsets ==
    { u32(0), u32(8), u32(14), u32(16), u32(20), u32(21), u32(22), u32(23), u32(24),
      << 1, 0 >>, U32_MAX }
TitleTails == SeqsUpTo({0, 65}, MaxTitleTail)
FullModules == { h \o to_le_bytes(o) \o t : h \in Headers, o \in TitleOffsets, t \in TitleTails }
Cuts == {0, 3, 4, 5, 19}
Before == { <<>>, <<65>> }
After == { <<>>, <<0>>, <<65>> }
Indexes ==
    { u32(i) : i \in {0, 1, 2, 16, 17, 18, 19, 20} }
        \cup { wrapping_sub(u32(0), u32(k)) : k \in 1..5 }

InitView ==
    /\ \E m \in FullModules, b \in Before, a \in After, n \in Cuts \cup {99} :
          /\ rom = b \o m \o a
          /\ view = [ptr |-> Len(b), len |-> IF n < Len(m) THEN n ELSE Len(m)]
    /\ call = <<>>
    /\ ret = None
    /\ ChainIdle
    /\ CacheIdle
    /\ HeurIdle
    /\ LoadIdle

\* view.read_word(idx)
ReadWord(idx) ==
    /\ call' = <<"read_word", idx>>
    /\ ret' = read_word(rom, view, idx)
    /\ UNCHANGED <<rom, view>>
    /\ UNCHANGED <<heurVars, chainVars, cacheVars, loadVars>>

\* Module { bytes: view, .. }.title()
Title ==
    /\ call' = <<"title">>
    /\ ret' = title(rom, view)
    /\ UNCHANGED <<rom, view>>
    /\ UNCHANGED <<heurVars, chainVars, cacheVars, loadVars>>

NextView ==
    \/ \E idx \in Indexes : ReadWord(idx)
    \/ Title

SpecView == InitView /\ [][NextView]_vars

\* The bytes of a view, and nothing else of the memory.
ViewBytes == SubSeq(rom, view.ptr + 1, view.ptr + view.len)

\* C9: title() reads the u32 o at byte 0x10 of the module view and returns the
\* view of its bytes from o up to, excluding, the first zero byte at or after o;
\* it fails with UnterminatedCstr exactly when that word is not readable inside
\* the view, o is beyond its length, or no zero byte lies between o and its end.
\* Only the bytes of the view decide the result.
C9_TitleIsCstrAtOffset ==
    call = <<"title">> =>
        LET m == ViewBytes
            readable == Len(m) >= 20
            o == from_le_bytes(m, 16)
            inside == o[1] < Half \div 2 /\ usize(o) <= Len(m)
            zeros == { z \in usize(o)..(Len(m) - 1) : m[z + 1] = 0 }
        IN  IF readable /\ inside /\ zeros # {}
            THEN LET z == CHOOSE x \in zeros : \A y \in zeros : x <= y
                 IN  ret = Ok([ptr |-> view.ptr + usize(o), len |-> z - usize(o)])
            ELSE ret = Err("UnterminatedCstr")

\* C9 witness: a non-empty title was returned from a view that is followed by
\* more memory, and (second case) a view with no terminator failed although a
\* zero byte follows it in memory.
C9_Witness ==
    /\ call = <<"title">>
    /\ view.ptr + view.len < Len(rom)
    /\ ret[1] = "Ok"
    /\ ret[2].len > 0

C9_WitnessUnterminated ==
    /\ call = <<"title">>
    /\ view.len >= 20
    /\ view.ptr + view.len < Len(rom)
    /\ rom[view.ptr + view.len + 1] = 0
    /\ ret = Err("UnterminatedCstr")

\* C10: read_word(offset) succeeds iff offset + 4 <= length(b), computed
\* without wraparound, and then returns the little-endian value of the four
\* bytes b[offset .. offset+4); otherwise it returns None ("out of range").
C10_ReadWordIffInRange ==
    (call # <<>> /\ call[1] = "read_word") =>
        LET idx == call[2]
            b == ViewBytes
        IN  IF idx[1] < Half \div 2 /\ usize(idx) + 4 <= Len(b)
            THEN ret = Some(<< b[usize(idx) + 3] + 256 * b[usize(idx) + 4],
                               b[usize(idx) + 1] + 256 * b[usize(idx) + 2] >>)
            ELSE ret = None

\* C10 witness: an unaligned read of the last four bytes of a view succeeded,
\* and (second case) a read at an offset within 4 of 2^32 was refused.
C10_Witness ==
    /\ call # <<>>
    /\ call[1] = "read_word"
    /\ call[2][1] = 0
    /\ call[2][2] % 4 # 0
    /\ call[2][2] + 4 = view.len
    /\ ret # None

C10_WitnessNearMax ==
    /\ call # <<>>
    /\ call[1] = "read_word"
    /\ call[2][1] = Half - 1
    /\ call[2][2] >= Half - 4
    /\ ret = None

(***************************************************************************)
(* lib.rs: ModuleChain.  The iterator borrows the whole image as a         *)
(* Slice32 and keeps the cursor pos (u32::MAX once exhausted).             *)
(***************************************************************************)
\* Rom::as_slice32
as_slice32(mem) == [ptr |-> 0, len |-> Len(mem)]

\* ModuleChain::in_range
in_range(mem, n) == u32_lt(n, slice_len(as_slice32(mem)))

\* A cursor that stays where it is when the next position is out of range.
advance_or_stay(mem, p, module_len) ==
    LET n == checked_add(p, module_len) IN
    IF n # None /\ in_range(mem, n[1]) THEN n[1] ELSE p

\* A cursor advanced with a wrapping addition.
advance_wrapping(mem, p, module_len) ==
    LET lo == p[2] + module_len[2]
        hi == p[1] + module_len[1] + (lo \div Half)
        n == << hi % Half, lo % Half >>
    IN  IF in_range(mem, n) THEN n ELSE U32_MAX

\* self.pos.checked_add(module_len).filter(self.in_range()).unwrap_or(u32::MAX)
advance(mem, p, module_len) ==
    LET n == checked_add(p, module_len) IN
    IF n # None /\ in_range(mem, n[1]) THEN n[1] ELSE U32_MAX

\* A range end that forgets to take the length word off.
range_end_with_length_word(module_start, module_len) ==
    Some(saturating_add(module_start, module_len))

\* module_start.checked_sub(4)?.saturating_add(module_len)
range_end(module_start, module_len) ==
    LET base == checked_sub(module_start, u32(4)) IN
    IF base = None THEN None ELSE Some(saturating_add(base[1], module_len))

\* ModuleChain::next with the cursor at p: the new cursor and the item returned.
chain_next(mem, p) ==
    LET module_start == checked_add(p, u32(4))
        module_len == IF module_start = None THEN None ELSE read_word(mem, as_slice32(mem), p)
    IN  IF module_start = None \/ module_len = None
        THEN [pos |-> p, item |-> None]
        ELSE IF module_len[1] = u32(0)
        THEN [pos |-> U32_MAX, item |-> None]
        ELSE LET new_pos == advance(mem, p, module_len[1])
                 r_end == range_end(module_start[1], module_len[1])
                 bytes == IF r_end = None THEN None
                          ELSE subslice(as_slice32(mem), module_start[1], r_end[1])
             IN  IF bytes = None
                 THEN [pos |-> new_pos, item |-> None]
                 ELSE [pos |-> new_pos,
                       item |-> Some([bytes |-> bytes[1], offset |-> module_start[1]])]

(***************************************************************************)
(* ROM images of the chain model: zero-filled, a multiple of 4 bytes long, *)
(* with up to two runs of length bytes planted from offset 4 on.  A chain  *)
(* starts at a non-zero word position inside the image, as                 *)
(* module_chain_start computes it, or at the sentinel.                     *)
(***************************************************************************)
Zeros(n) == [i \in 1..n |-> 0]

\* img with the bytes bs written at offset `at` (cut at the end of img)
Place(img, at, bs) ==
    [i \in 1..Len(img) |-> IF at < i /\ i <= at + Len(bs) THEN bs[i - at] ELSE img[i]]

ChainLens == { 4 * k : k \in 1..MaxSmallWords } \cup { 4 * BigWords }
PatchAts == 4..(3 + MaxPatchSpan)
PatchBytes == { <<1>>, <<3>>, <<4>>, <<8>>, <<255, 255, 255, 255>> }
Starts(mem) ==
    { u32(4 * k) : k \in { j \in 1..MaxStartWord : 4 * j < Len(mem) } } \cup { U32_MAX }

\* Well-formed chains: a zero word, then MaxLinked modules back to back, each
\* its length word followed by its zero-filled body, then the zero word that
\* ends the chain.
LinkedImages ==
    { Zeros(4) \o Concat([i \in 1..Len(ls) |-> to_le_bytes(u32(ls[i])) \o Zeros(ls[i] - 4)])
               \o Zeros(4) :
        ls \in [1..MaxLinked -> {4, 8}] }

ChainImages ==
    { Place(Place(Zeros(n), a1, IF a1 = 0 THEN <<>> ELSE b1), a2, IF a2 = 0 THEN <<>> ELSE b2) :
        n \in ChainLens, a1 \in PatchAts \cup {0}, a2 \in PatchAts \cup {0},
        b1 \in PatchBytes, b2 \in PatchBytes }
    \cup LinkedImages

\* No iterator yet.
InitChain ==
    /\ ImageIdle
    /\ HeurIdle
    /\ LoadIdle

\* ModuleChain::new(rom, start) on an image: start is Some(offset) or None,
\* which seeds the sentinel.
ChainNew ==
    /\ pos = NoIterator
    /\ rom' \in ChainImages
    /\ pos' \in Starts(rom')
    /\ call' = <<"new">>
    /\ UNCHANGED <<ret, ended, calls, yielded, trail, view>>
    /\ UNCHANGED <<heurVars, cacheVars, loadVars>>

\* iterator.next(); `call` keeps the cursor the call started from.
ChainNext ==
    /\ pos # NoIterator
    /\ LET n == chain_next(rom, pos) IN
          /\ pos' = n.pos
          /\ ret' = n.item
          /\ ended' = (ended \/ n.item = None)
          /\ calls' = IF ~ended /\ calls <= Len(rom) THEN calls + 1 ELSE calls
          /\ yielded' = IF n.item # None /\ yielded <= Len(rom)
                        THEN yielded + 1 ELSE yielded
          /\ trail' = IF n.item # None /\ yielded <= Len(rom)
                      THEN Append(trail, [from |-> n.item[1].bytes.ptr,
                                          to |-> n.item[1].bytes.ptr + n.item[1].bytes.len])
                      ELSE trail
    /\ call' = <<"next", pos>>
    /\ UNCHANGED <<rom, view>>
    /\ UNCHANGED <<heurVars, cacheVars, loadVars>>

NextChain ==
    \/ ChainNew
    \/ ChainNext

SpecChain == InitChain /\ [][NextChain]_vars

IsNext == call # <<>> /\ call[1] = "next"

\* C4: a module yielded by next(), taken with the cursor at c and the length
\* word L read at c, covers exactly the image bytes [c+4, c+L), reports the
\* absolute offset c+4 and lies inside the image (c+L <= image length).
C4_YieldedModuleRange ==
    (IsNext /\ ret # None) =>
        LET c == call[2]
        IN  /\ c[1] < Half \div 2
            /\ usize(c) + 4 <= Len(rom)
            /\ LET L == from_le_bytes(rom, usize(c))
               IN  /\ L[1] < Half \div 2
                   /\ usize(L) >= 4
                   /\ usize(c) + usize(L) <= Len(rom)
                   /\ ret[1].bytes = [ptr |-> usize(c) + 4, len |-> usize(L) - 4]
                   /\ ret[1].offset = u32(usize(c) + 4)

\* C4 witness: a non-empty module that ends before the end of the image.
C4_Witness ==
    /\ IsNext
    /\ ret # None
    /\ ret[1].bytes.len > 0
    /\ ret[1].bytes.ptr + ret[1].bytes.len < Len(rom)

\* C5: once next() has returned None on an iterator, every later next() on it
\* returns None as well (no module is yielded after the first end-of-stream).
C5_FusedAfterEnd == (IsNext /\ ended) => ret = None

\* C6: repeated next() calls reach end-of-stream after finitely many calls,
\* and the number of modules yielded is bounded by the image length: an
\* iterator that has been called more than Len(rom) times has returned None,
\* and it never yields more than Len(rom) modules.
C6_ChainTerminates == calls <= Len(rom) /\ yielded <= Len(rom)

\* C6 witness: an iterator that yielded two modules and then ended.
C6_Witness == ended /\ yielded >= 2 /\ ret = None

\* C13: a next() call leaves the cursor where it was, moves it strictly
\* forward, or sets it to the sentinel u32::MAX (so it never moves backward
\* and never wraps); and the modules an iterator has yielded have strictly
\* increasing offsets and pairwise disjoint byte ranges.
C13_CursorNeverMovesBack ==
    /\ IsNext => u32_le(call[2], pos)
    /\ \A i \in DOMAIN trail : \A j \in DOMAIN trail :
          i < j => trail[i].from < trail[j].from /\ trail[i].to <= trail[j].from

\* C13 witness: a third, non-empty module was yielded after two others, from
\* a cursor that then moved on.
C13_Witness ==
    /\ IsNext
    /\ ret # None
    /\ Len(trail) >= 3
    /\ trail[Len(trail)].from < trail[Len(trail)].to
    /\ pos # call[2]

\* A length word of 0xFFFFFFFF, whose addition to the cursor overflows, and a
\* length word that points past the image both sent the cursor to u32::MAX.
C13_WitnessOverflow ==
    /\ IsNext
    /\ call[2] # U32_MAX
    /\ usize(call[2]) + 4 <= Len(rom)
    /\ from_le_bytes(rom, usize(call[2])) = U32_MAX
    /\ pos = U32_MAX

(***************************************************************************)
(* lib.rs: Rom, its construction from memory and its memoised offsets.     *)
(* A CachedOffset is a Cell<Option<NonZeroU32>>: None is "not yet          *)
(* attempted", Some(u32::MAX) "confirmed absent", Some(v) "found v".       *)
(***************************************************************************)
ROM_LIMIT == 12 * 2^20

\* b"MODULE#\0" and b"UtilityModule\0"
MODULE_ANCHOR == << 77, 79, 68, 85, 76, 69, 35, 0 >>
UTILITY_MODULE == << 85, 116, 105, 108, 105, 116, 121, 77, 111, 100, 117, 108, 101, 0 >>

\* NonZeroU32::new
NonZeroU32_new(n) == IF n = u32(0) THEN None ELSE Some(n)

\* A cache that records only successful searches.
recell_offset_found_only(cell, found) ==
    IF cell # None
    THEN [cell |-> cell, ret |-> IF u32_lt(cell[1], U32_MAX) THEN cell ELSE None,
          searched |-> FALSE]
    ELSE LET res == IF found = None THEN None ELSE NonZeroU32_new(found[1])
         IN  [cell |-> res, ret |-> res, searched |-> TRUE]

\* Rom::recell_offset on a cell holding `cell`, where `found` is what the
\* closure `find` returns if it is run: the new cell, the result, and
\* whether the closure was run.
recell_offset(cell, found) ==
    IF cell # None
    THEN [cell |-> cell, ret |-> IF u32_lt(cell[1], U32_MAX) THEN cell ELSE None,
          searched |-> FALSE]
    ELSE LET res == IF found = None THEN None ELSE NonZeroU32_new(found[1])
         IN  [cell |-> Some(IF res = None THEN U32_MAX ELSE res[1]), ret |-> res,
              searched |-> TRUE]

\* The closure of Rom::kernel_start
kernel_start_search(mem) ==
    LET p == find(mem, MODULE_ANCHOR)
        n == IF p = None THEN None ELSE checked_add(p[1], u32(8))
    IN  IF n # None /\ u32_lt(n[1], slice_len(as_slice32(mem))) THEN n ELSE None

\* The closure of Rom::module_chain_start
module_chain_start_search(mem) ==
    LET n == find_offset_to(mem, UTILITY_MODULE, u32(16))
    IN  IF n = None THEN None ELSE checked_sub(n[1], u32(4))

\* The history of one cached offset after a call that returned r and ran the
\* search or not (counters stop at 2).
Recorded(h, r, searched) ==
    [calls |-> IF h.calls < 2 THEN h.calls + 1 ELSE h.calls,
     searches |-> IF searched /\ h.searches < 2 THEN h.searches + 1 ELSE h.searches,
     first |-> IF h.calls = 0 THEN r ELSE h.first]

(***************************************************************************)
(* ROM images of the Rom model: zero-filled, with a chain length byte at   *)
(* offsets 4 and 8, optionally "UtilityModule\0" at offset t with correct  *)
(* title displacements (for adjustment 0x10) planted at some of the word   *)
(* positions 16, 20, 24 before it, and optionally "MODULE#\0" near the end.*)
(***************************************************************************)
RomLens == { 4 * RomWords, 4 * BigWords }
AnchorAts == {24, 28, 29}
FieldAts(t) == { q \in {16, 20, 24} : q + 4 <= t }
LengthBytes == { <<0>>, <<3>>, <<4>>, <<8>> }
NextBytes == { <<0>>, <<1>>, <<4>> }

RECURSIVE PlaceFields(_, _, _)
PlaceFields(img, t, qs) ==
    IF qs = {} THEN img
    ELSE LET q == CHOOSE x \in qs : TRUE
         IN  PlaceFields(Place(img, q, to_le_bytes(u32(t - (q - 16)))), t, qs \ {q})

WithChainBytes == { Place(Place(Zeros(n), 4, b4), 8, b8) : n \in RomLens, b4 \in LengthBytes, b8 \in NextBytes }
WithUtility ==
    WithChainBytes \cup
    UNION { { Place(PlaceFields(img, t, qs), t, UTILITY_MODULE) : qs \in SUBSET FieldAts(t) } :
            img \in WithChainBytes, t \in AnchorAts }
RomImages ==
    WithUtility \cup
    { Place(img, Len(img) - back, MODULE_ANCHOR) : img \in WithUtility, back \in {8, 12} }
\* Memory whose length from_mem refuses.
BadImages == { Zeros(4 * RomWords + k) : k \in 1..3 }

\* No Rom yet.
InitRom ==
    /\ ImageIdle
    /\ HeurIdle
    /\ LoadIdle

HasRom == call # <<>> /\ ret # Err("RomInvalidSize")

\* Rom::from_mem on a buffer of len bytes: the size check is all it computes.
from_mem(len) ==
    IF len > ROM_LIMIT \/ len % 4 # 0 THEN Err("RomInvalidSize") ELSE Ok("Rom")

\* Rom::from_mem(mem)
FromMem ==
    /\ call = <<>>
    /\ \E mem \in RomImages \cup BadImages :
          /\ rom' = mem
          /\ ret' = from_mem(Len(mem))
    /\ call' = <<"from_mem">>
    /\ UNCHANGED <<view, chainVars, cacheVars, heurVars, loadVars>>

\* rom.kernel_start()
KernelStart ==
    /\ HasRom
    /\ LET r == recell_offset(kernel_start, kernel_start_search(rom)) IN
          /\ kernel_start' = r.cell
          /\ ret' = r.ret
          /\ hist' = [hist EXCEPT !.kernel_start = Recorded(@, r.ret, r.searched)]
    /\ call' = <<"kernel_start">>
    /\ UNCHANGED <<rom, view, module_chain_start, chainVars, heurVars, loadVars>>

\* rom.module_chain_start()
ModuleChainStart ==
    /\ HasRom
    /\ LET r == recell_offset(module_chain_start, module_chain_start_search(rom)) IN
          /\ module_chain_start' = r.cell
          /\ ret' = r.ret
          /\ hist' = [hist EXCEPT !.module_chain_start = Recorded(@, r.ret, r.searched)]
    /\ call' = <<"module_chain_start">>
    /\ UNCHANGED <<rom, view, kernel_start, chainVars, heurVars, loadVars>>

\* rom.module_chain(): ModuleChain::new(self, self.module_chain_start())
ModuleChain ==
    /\ HasRom
    /\ LET r == recell_offset(module_chain_start, module_chain_start_search(rom)) IN
          /\ module_chain_start' = r.cell
          /\ hist' = [hist EXCEPT !.module_chain_start = Recorded(@, r.ret, r.searched)]
          /\ pos' = IF r.ret = None THEN U32_MAX ELSE r.ret[1]
          /\ ret' = <<"ModuleChain", r.ret>>
    /\ ended' = FALSE
    /\ calls' = 0
    /\ yielded' = 0
    /\ trail' = <<>>
    /\ call' = <<"module_chain">>
    /\ UNCHANGED <<rom, view, kernel_start, heurVars, loadVars>>

NextRom ==
    \/ FromMem
    \/ KernelStart
    \/ ModuleChainStart
    \/ ModuleChain
    \/ ChainNext

SpecRom == InitRom /\ [][NextRom]_vars

\* What a cell holding c stands for: the Option a call returns from it.
Cached(c) == IF u32_lt(c[1], U32_MAX) THEN c ELSE None

\* The memoisation of one cached offset with cell c and history h.
Memoised(c, h) ==
    /\ h.calls = 0 => (c = None /\ h.searches = 0)
    /\ h.calls >= 1 => (h.searches = 1 /\ c # None /\ Cached(c) = h.first)

\* C7: each cached offset starts unresolved; the first call runs the search and
\* moves the cell to found(value) or confirmed-absent; the cell never changes
\* again, and every later call returns the first call's result without
\* running the search again, also when that result was absent.
C7_MemoisedOnce ==
    /\ Memoised(kernel_start, hist.kernel_start)
    /\ Memoised(module_chain_start, hist.module_chain_start)
    /\ call = <<"kernel_start">> => ret = hist.kernel_start.first
    /\ call = <<"module_chain_start">> => ret = hist.module_chain_start.first

\* C7 witness: a second call of module_chain_start() returned absent from the
\* cache on an image that holds "UtilityModule\0".
C7_Witness ==
    /\ call = <<"module_chain_start">>
    /\ hist.module_chain_start.calls = 2
    /\ ret = None
    /\ find(rom, UTILITY_MODULE) # None

C7_WitnessFound ==
    /\ call = <<"kernel_start">>
    /\ hist.kernel_start.calls = 2
    /\ ret # None

\* C8: module_chain_start() returns find_offset_to(image, "UtilityModule\0",
\* 0x10) - 4 whenever find_offset_to succeeds and the subtraction does not
\* underflow, and absent otherwise; module_chain() seeds the iterator at
\* exactly that offset (the sentinel when absent).
C8_ChainStartIsFieldMinus4 ==
    LET f == find_offset_to(rom, UTILITY_MODULE, u32(16))
        expected == IF f = None THEN None ELSE checked_sub(f[1], u32(4))
    IN  /\ call = <<"module_chain_start">> => ret = expected
        /\ call = <<"module_chain">> =>
              /\ ret = <<"ModuleChain", expected>>
              /\ pos = IF expected = None THEN U32_MAX ELSE expected[1]

(***************************************************************************)
(* lib.rs: loading.  Rom::from_file_impl opens the file, asks its metadata *)
(* for the length, checks the length and only then allocates and reads;    *)
(* Rom::from_mem checks the length of the buffer it is handed.  Both read  *)
(* nothing of the contents before the check, so a file or buffer is held   *)
(* by its length alone, which lets the lengths around the 12 MiB limit in. *)
(* Each `?` on an I/O call is a step that succeeds or fails.               *)
(***************************************************************************)
\* A length check that forgets the word alignment.
size_accepted_unaligned(n) == n <= ROM_LIMIT

\* n if n <= ROM_LIMIT as u64 && n & 3 == 0
size_accepted(n) == n <= ROM_LIMIT /\ n % 4 = 0

\* Lengths of files and buffers: the small ones, and those around ROM_LIMIT.
LoadLens ==
    (0..MaxSmallLen) \cup
    { n \in (ROM_LIMIT - MaxLimitSlack)..(ROM_LIMIT + MaxLimitSlack) : n >= 0 }

\* A file of len bytes at the path, from_file_impl not yet entered.
FileAt(len) == [len |-> len, pc |-> "open", meta |-> None, rom_len |-> None, reads |-> 0]

\* Nothing loaded yet.
InitLoad ==
    /\ ImageIdle
    /\ HeurIdle
    /\ LoadIdle

\* Rom::from_file(path) is called on a file of some length.
FromFile ==
    /\ call = <<>>
    /\ \E len \in LoadLens : file' = FileAt(len)
    /\ call' = <<"from_file">>
    /\ UNCHANGED <<rom, view, ret, chainVars, cacheVars, heurVars>>

\* let mut file = std::fs::File::open(path)?;
FileOpen ==
    /\ file # NoFile
    /\ file.pc = "open"
    /\ \E ok \in BOOLEAN :
          IF ok THEN /\ file' = [file EXCEPT !.pc = "metadata"]
                     /\ UNCHANGED ret
                ELSE /\ file' = [file EXCEPT !.pc = "done"]
                     /\ ret' = Err("Io")
    /\ UNCHANGED <<rom, view, call, chainVars, cacheVars, heurVars>>

\* let rom_len = match file.metadata()?.len() { ... };
FileMetadata ==
    /\ file # NoFile
    /\ file.pc = "metadata"
    /\ \E ok \in BOOLEAN :
          IF ~ok
          THEN /\ file' = [file EXCEPT !.pc = "done"]
               /\ ret' = Err("Io")
          ELSE IF size_accepted(file.len)
          THEN /\ file' = [file EXCEPT !.pc = "read", !.meta = Some(file.len),
                                       !.rom_len = Some(file.len)]
               /\ UNCHANGED ret
          ELSE /\ file' = [file EXCEPT !.pc = "done", !.meta = Some(file.len)]
               /\ ret' = Err("RomInvalidSize")
    /\ UNCHANGED <<rom, view, call, chainVars, cacheVars, heurVars>>

\* let mut data = vec![0u8; rom_len]; file.read_exact(&mut data)?; Ok(Rom {..})
FileReadExact ==
    /\ file # NoFile
    /\ file.pc = "read"
    /\ \E ok \in BOOLEAN :
          /\ file' = [file EXCEPT !.pc = "done", !.reads = @ + 1]
          /\ ret' = IF ok THEN Ok("Rom") ELSE Err("Io")
    /\ UNCHANGED <<rom, view, call, chainVars, cacheVars, heurVars>>

\* Rom::from_mem(mem) on a buffer of len bytes
FromMemOfLen ==
    /\ call = <<>>
    /\ \E len \in LoadLens :
          /\ call' = <<"from_mem", len>>
          /\ ret' = from_mem(len)
    /\ UNCHANGED <<rom, view, chainVars, cacheVars, heurVars, loadVars>>

NextLoad ==
    \/ FromFile
    \/ FileOpen
    \/ FileMetadata
    \/ FileReadExact
    \/ FromMemOfLen

SpecLoad == InitLoad /\ [][NextLoad]_vars

\* The length constraint of the format: a multiple of 4, at most 12 MiB.
FormatLength(n) == (n \div 4) * 4 = n /\ n <= 12 * 1024 * 1024

FromFileDone == file # NoFile /\ file.pc = "done"
FromMemDone == call # <<>> /\ call[1] = "from_mem"

\* C11: constructing a Rom succeeds only for a length that is a multiple of 4
\* and at most 12 MiB.  For any other length from_mem fails with
\* RomInvalidSize, and from_file, once the file is open and its metadata
\* read, fails with RomInvalidSize too (before that only an I/O error can
\* end it); no read of the contents of a file of a rejected length is made.
C11_InvalidSizeBeforeRead ==
    /\ FromMemDone =>
          /\ ret = Ok("Rom") => FormatLength(call[2])
          /\ ~FormatLength(call[2]) => ret = Err("RomInvalidSize")
    /\ FromFileDone /\ ret = Ok("Rom") => FormatLength(file.len)
    /\ (file # NoFile /\ ~FormatLength(file.len)) =>
          /\ file.reads = 0
          /\ file.pc # "read"
          /\ FromFileDone => ret \in { Err("RomInvalidSize"), Err("Io") }
          /\ (FromFileDone /\ file.meta # None) => ret = Err("RomInvalidSize")

\* C11 witness: a file whose length is not a multiple of 4 was opened, sized
\* and rejected, with no read made.
C11_Witness ==
    /\ FromFileDone
    /\ file.len % 4 # 0
    /\ file.meta = Some(file.len)
    /\ ret = Err("RomInvalidSize")
    /\ file.reads = 0

\* A word-aligned file just over 12 MiB was rejected the same way, and one of
\* exactly 12 MiB was read and accepted.
C11_WitnessLimit ==
    \/ /\ FromFileDone
       /\ file.len = ROM_LIMIT + 4
       /\ ret = Err("RomInvalidSize")
    \/ /\ FromFileDone
       /\ file.len = ROM_LIMIT
       /\ ret = Ok("Rom")
       /\ file.reads = 1

=============================================================================
